---- MODULE Spec2Model ----
(***************************************************************************)
(* Factory-dependency resolution of hardhat-zksync-zksync2js               *)
(* (packages/hardhat-zksync-zksync2js/src/helpers.ts): loadArtifact,       *)
(* extractFactoryDeps, extractFactoryDepsRecursive and deployContract,     *)
(* as a state machine whose steps are the stretches of code between two    *)
(* suspension points (await).                                              *)
(***************************************************************************)
EXTENDS Integers, Sequences, FiniteSets, TLC

VARIABLES
    store,      \* hre.artifacts: fully qualified name -> artifact on disk (or none)
    root,       \* per call: the artifact handed to extractFactoryDeps
    pc,         \* per call: position inside extractFactoryDeps
    visited,    \* per call: the Set<string> `visited`
    stack,      \* per call: the frames of extractFactoryDepsRecursive, innermost last
    result,     \* per call: the array the promise of extractFactoryDeps resolved with
    error,      \* per call: the error in flight / the promise rejected with
    loads,      \* per call: the names passed to loadArtifact, in call order
    inflight,   \* per call: number of pending hre.artifacts.readArtifact promises
    returned,   \* per call: artifacts whose extractFactoryDepsRecursive call returned
    dpc,        \* per call: position inside deployContract ("none": called directly)
    walletArg,  \* per call: whether deployContract was given a wallet
    accounts,   \* per call: number of wallets the network configuration yields
    additional, \* per call: the additionalFactoryDeps argument
    sent,       \* per call: the factoryDeps of every deploy transaction sent
    thrown      \* per call: the error deployContract rejected with

deployVars == <<dpc, walletArg, accounts, additional, sent, thrown>>

vars == <<store, root, pc, visited, stack, result, error, loads, inflight, returned,
          deployVars>>

(***************************************************************************)
(* Bounds of the model.                                                    *)
(***************************************************************************)
\* entries of one artifact's factoryDeps mapping
MaxDeps == 2
\* entries of all factoryDeps mappings of the store together
MaxEdges == 4
\* frames of extractFactoryDepsRecursive (never reached by the code: one frame
\* per distinct name at most; it keeps a non-terminating variant finite)
MaxDepth == 6
\* entries of all factoryDeps mappings when two resolutions run
ConcEdges == 3
\* entries of all factoryDeps mappings when deployContract runs
DeployEdges == 2
\* elements of deployContract's additionalFactoryDeps
MaxAdditional == 2

(***************************************************************************)
(* Artifacts.                                                              *)
(***************************************************************************)
\* Fully qualified names `${sourceName}:${contractName}` as <<sourceName, contractName>>.
A == <<"a.sol", "K">>
B == <<"a.sol", "L">>
C == <<"b.sol", "K">>
D == <<"b.sol", "L">>
Names == {A, B, C, D}

\* The two tags of ./constants (opaque, distinct) and the tag of a plain solc artifact.
ZKSOLC_ARTIFACT_FORMAT_VERSION == "hh-zksolc-artifact-1"
ZKVYPER_ARTIFACT_FORMAT_VERSION == "hh-zkvyper-artifact-1"
SOLC_ARTIFACT_FORMAT_VERSION == "hh-sol-artifact-1"
Formats == {ZKSOLC_ARTIFACT_FORMAT_VERSION, ZKVYPER_ARTIFACT_FORMAT_VERSION,
            SOLC_ARTIFACT_FORMAT_VERSION}
\* The tags of a project that uses zksolc only: an accepted and a refused one.
OneCompiler == {ZKSOLC_ARTIFACT_FORMAT_VERSION, SOLC_ARTIFACT_FORMAT_VERSION}

\* Bytecode of each contract; B and D are the same code in two source units.
BytecodeOf(n) ==
    CASE n = A -> "0xaa"
      [] n = B -> "0xbb"
      [] n = C -> "0xcc"
      [] n = D -> "0xbb"

NoArtifact(n) ==
    [exists |-> FALSE, sourceName |-> n[1], contractName |-> n[2],
     format |-> "", bytecode |-> "0x", factoryDeps |-> <<>>]

\* factoryDeps is a mapping dependencyHash -> fully qualified name; the keys are
\* 64-digit bytecode hashes (never array indices), so `for ... in` enumerates them
\* in insertion order: entry i is the i-th inserted key and its value.
Artifact(n, f, deps) ==
    [exists |-> TRUE, sourceName |-> n[1], contractName |-> n[2],
     format |-> f, bytecode |-> BytecodeOf(n), factoryDeps |-> deps]

FullyQualifiedName(artifact) == <<artifact.sourceName, artifact.contractName>>

Min(a, b) == IF a < b THEN a ELSE b

DepLists(n) == UNION {[1..k -> Names] : k \in 0..n}

\* What the build may have written for name n: nothing, or an artifact with one
\* of the tags `formats` and at most `budget` factoryDeps entries.
Entries(n, formats, budget) ==
    {NoArtifact(n)} \cup
    {Artifact(n, f, d) : f \in formats, d \in DepLists(Min(MaxDeps, budget))}

Budget(edges, used) == IF used >= edges THEN 0 ELSE edges - used

\* The names referenced, directly or transitively, from the artifacts `from`
\* through the factoryDeps of the artifacts of store s.
RECURSIVE Referenced(_, _)
Referenced(s, from) ==
    LET more == from \cup UNION {{s[n].factoryDeps[i] : i \in DOMAIN s[n].factoryDeps}
                                  : n \in from}
    IN  IF more = from THEN from ELSE Referenced(s, more)

Recognized(artifact) ==
    artifact.exists /\ artifact.format \in {ZKSOLC_ARTIFACT_FORMAT_VERSION,
                                            ZKVYPER_ARTIFACT_FORMAT_VERSION}

(***************************************************************************)
(* loadArtifact (helpers.ts 230-243).                                      *)
(***************************************************************************)
\* hre.artifacts.readArtifact(name): the artifact, or the store's NotFound error.
ReadArtifact(name) ==
    IF store[name].exists
    THEN [ok |-> TRUE, artifact |-> store[name]]
    ELSE [ok |-> FALSE, error |-> [kind |-> "NotFound", name |-> name]]

\* Variant: only the zksolc tag is accepted.
LoadArtifactZksolcOnly(name) ==
    LET read == ReadArtifact(name)
    IN  IF ~read.ok THEN read
        ELSE IF read.artifact.format # ZKSOLC_ARTIFACT_FORMAT_VERSION
             THEN [ok |-> FALSE,
                   error |-> [kind |-> "NotCompiledByExpectedToolchain", name |-> name]]
             ELSE read

LoadArtifact(name) ==
    LET read == ReadArtifact(name)
    IN  IF ~read.ok THEN read
        ELSE IF read.artifact.format # ZKSOLC_ARTIFACT_FORMAT_VERSION
                /\ read.artifact.format # ZKVYPER_ARTIFACT_FORMAT_VERSION
             THEN [ok |-> FALSE,
                   error |-> [kind |-> "NotCompiledByExpectedToolchain", name |-> name]]
             ELSE read

(***************************************************************************)
(* extractFactoryDeps / extractFactoryDepsRecursive (helpers.ts 245-271).  *)
(***************************************************************************)
Procs == DOMAIN pc

NoError == [kind |-> "none", name |-> <<>>]

Frame(artifact) == [artifact |-> artifact, i |-> 1, factoryDeps |-> <<>>]

Top(p) == stack[p][Len(stack[p])]

Pop(s) == SubSeq(s, 1, Len(s) - 1)

SetTop(s, f) == [s EXCEPT ![Len(s)] = f]

\* Variant: the keys enumerated in reverse insertion order.
DependencyContractReversed(p) ==
    Top(p).artifact.factoryDeps[Len(Top(p).artifact.factoryDeps) + 1 - Top(p).i]

\* The entry the loop of the innermost frame is at.
DependencyContract(p) == Top(p).artifact.factoryDeps[Top(p).i]

AtEntry(p) == pc[p] = "loop" /\ Top(p).i <= Len(Top(p).artifact.factoryDeps)

\* Variant: the set is asked for the dependency hash, which it never holds.
VisitedHasHash(p) == FALSE

\* Variant: one `visited` set at module level, shared by all calls.
VisitedHasShared(p) == DependencyContract(p) \in UNION {visited[q] : q \in Procs}

\* `visited.has(dependencyContract)`
VisitedHas(p) == DependencyContract(p) \in visited[p]

\* Variant: `visited` starts empty.
ExtractFactoryDepsUnseeded(p) ==
    /\ pc[p] = "idle"
    /\ dpc[p] \in {"none", "resolve"}
    /\ pc' = [pc EXCEPT ![p] = "loop"]
    /\ visited' = [visited EXCEPT ![p] = {}]
    /\ stack' = [stack EXCEPT ![p] = <<Frame(root[p])>>]
    /\ UNCHANGED <<deployVars, store, root, result, error, loads, inflight, returned>>

\* extractFactoryDeps: seed `visited` with the root's name, enter the recursion.
ExtractFactoryDeps(p) ==
    /\ pc[p] = "idle"
    /\ dpc[p] \in {"none", "resolve"}
    /\ pc' = [pc EXCEPT ![p] = "loop"]
    /\ visited' = [visited EXCEPT ![p] = {FullyQualifiedName(root[p])}]
    /\ stack' = [stack EXCEPT ![p] = <<Frame(root[p])>>]
    /\ UNCHANGED <<deployVars, store, root, result, error, loads, inflight, returned>>

\* `if (!visited.has(dependencyContract))` is false: next entry.
SkipVisited(p) ==
    /\ AtEntry(p)
    /\ VisitedHas(p)
    /\ stack' = [stack EXCEPT ![p] = SetTop(@, [Top(p) EXCEPT !.i = @ + 1])]
    /\ UNCHANGED <<deployVars, store, root, pc, visited, result, error, loads, inflight, returned>>

\* Variant: the load is not awaited, the loop goes on to the next entry.
IssueLoadNotAwaited(p) ==
    /\ AtEntry(p)
    /\ ~VisitedHas(p)
    /\ loads' = [loads EXCEPT ![p] = Append(@, DependencyContract(p))]
    /\ visited' = [visited EXCEPT ![p] = @ \cup {DependencyContract(p)}]
    /\ inflight' = [inflight EXCEPT ![p] = @ + 1]
    /\ stack' = [stack EXCEPT ![p] = SetTop(@, [Top(p) EXCEPT !.i = @ + 1])]
    /\ UNCHANGED <<deployVars, store, root, pc, result, error, returned>>

\* `await loadArtifact(hre, dependencyContract)`: readArtifact is called, the
\* call suspends.
IssueLoad(p) ==
    /\ AtEntry(p)
    /\ ~VisitedHas(p)
    /\ pc' = [pc EXCEPT ![p] = "load"]
    /\ loads' = [loads EXCEPT ![p] = Append(@, DependencyContract(p))]
    /\ inflight' = [inflight EXCEPT ![p] = @ + 1]
    /\ UNCHANGED <<deployVars, store, root, visited, stack, result, error, returned>>

\* Variant: the name is marked only after the recursive call.
LoadResolvedMarkLate(p) ==
    /\ pc[p] = "load"
    /\ Len(stack[p]) < MaxDepth
    /\ LET loaded == LoadArtifact(DependencyContract(p))
       IN  /\ loaded.ok
           /\ stack' = [stack EXCEPT ![p] =
                  Append(SetTop(@, [Top(p) EXCEPT
                                      !.factoryDeps = Append(@, loaded.artifact.bytecode)]),
                         Frame(loaded.artifact))]
    /\ pc' = [pc EXCEPT ![p] = "loop"]
    /\ inflight' = [inflight EXCEPT ![p] = @ - 1]
    /\ UNCHANGED <<deployVars, store, root, visited, result, error, loads, returned>>

\* The load succeeded: push the bytecode, mark the name visited, recurse.
LoadResolved(p) ==
    /\ pc[p] = "load"
    /\ Len(stack[p]) < MaxDepth
    /\ LET loaded == LoadArtifact(DependencyContract(p))
       IN  /\ loaded.ok
           /\ stack' = [stack EXCEPT ![p] =
                  Append(SetTop(@, [Top(p) EXCEPT
                                      !.factoryDeps = Append(@, loaded.artifact.bytecode)]),
                         Frame(loaded.artifact))]
           /\ visited' = [visited EXCEPT ![p] = @ \cup {DependencyContract(p)}]
    /\ pc' = [pc EXCEPT ![p] = "loop"]
    /\ inflight' = [inflight EXCEPT ![p] = @ - 1]
    /\ UNCHANGED <<deployVars, store, root, result, error, loads, returned>>

\* Variant: a failed load is caught and the entry skipped.
LoadRejectedSkipped(p) ==
    /\ pc[p] = "load"
    /\ LET loaded == LoadArtifact(DependencyContract(p))
       IN  /\ ~loaded.ok
           /\ error' = [error EXCEPT ![p] = loaded.error]
    /\ stack' = [stack EXCEPT ![p] = SetTop(@, [Top(p) EXCEPT !.i = @ + 1])]
    /\ pc' = [pc EXCEPT ![p] = "loop"]
    /\ inflight' = [inflight EXCEPT ![p] = @ - 1]
    /\ UNCHANGED <<deployVars, store, root, visited, result, loads, returned>>

\* The load failed (readArtifact rejected, or the format check threw).
LoadRejected(p) ==
    /\ pc[p] = "load"
    /\ LET loaded == LoadArtifact(DependencyContract(p))
       IN  /\ ~loaded.ok
           /\ error' = [error EXCEPT ![p] = loaded.error]
    /\ pc' = [pc EXCEPT ![p] = "throw"]
    /\ inflight' = [inflight EXCEPT ![p] = @ - 1]
    /\ UNCHANGED <<deployVars, store, root, visited, stack, result, loads, returned>>

\* The loop of the innermost frame is over: `return factoryDeps`; the caller
\* pushes them (`factoryDeps.push(...transitiveDeps)`) and goes to its next entry,
\* or, from the outermost frame, extractFactoryDeps resolves with them.
Return(p) ==
    /\ pc[p] = "loop"
    /\ Top(p).i > Len(Top(p).artifact.factoryDeps)
    /\ LET transitiveDeps == Top(p).factoryDeps
           rest == Pop(stack[p])
       IN  IF rest = <<>>
           THEN /\ result' = [result EXCEPT ![p] = transitiveDeps]
                /\ pc' = [pc EXCEPT ![p] = "done"]
                /\ stack' = [stack EXCEPT ![p] = <<>>]
                /\ UNCHANGED returned
           ELSE /\ stack' = [stack EXCEPT ![p] =
                      SetTop(rest, [rest[Len(rest)] EXCEPT
                                      !.factoryDeps = @ \o transitiveDeps,
                                      !.i = @ + 1])]
                /\ returned' = [returned EXCEPT ![p] =
                      @ \cup {FullyQualifiedName(Top(p).artifact)}]
                /\ UNCHANGED <<result, pc>>
    /\ UNCHANGED <<deployVars, store, root, visited, error, loads, inflight>>

\* The error leaves one frame (no try/catch anywhere); out of the outermost
\* frame it rejects the promise of extractFactoryDeps.
Propagate(p) ==
    /\ pc[p] = "throw"
    /\ stack' = [stack EXCEPT ![p] = Pop(@)]
    /\ pc' = [pc EXCEPT ![p] = IF Len(stack[p]) = 1 THEN "failed" ELSE "throw"]
    /\ UNCHANGED <<deployVars, store, root, visited, result, error, loads, inflight, returned>>

Next ==
    \/ \E p \in Procs : ExtractFactoryDeps(p)
    \/ \E p \in Procs : SkipVisited(p)
    \/ \E p \in Procs : IssueLoad(p)
    \/ \E p \in Procs : LoadResolved(p)
    \/ \E p \in Procs : LoadRejected(p)
    \/ \E p \in Procs : Return(p)
    \/ \E p \in Procs : Propagate(p)

(***************************************************************************)
(* extractFactoryDeps as one computation: what a call returns when nothing *)
(* else runs (helpers.ts 245-271, the awaits taken as plain calls).        *)
(***************************************************************************)
\* The loop of extractFactoryDepsRecursive from entry i on, with `visited` = vis
\* and `factoryDeps` = acc: the array returned, or the error thrown.
RECURSIVE ExtractFactoryDepsRecursive(_, _, _, _)
ExtractFactoryDepsRecursive(artifact, i, vis, acc) ==
    IF i > Len(artifact.factoryDeps)
    THEN [ok |-> TRUE, factoryDeps |-> acc, visited |-> vis, error |-> NoError]
    ELSE LET dependencyContract == artifact.factoryDeps[i]
         IN  IF dependencyContract \in vis
             THEN ExtractFactoryDepsRecursive(artifact, i + 1, vis, acc)
             ELSE LET loaded == LoadArtifact(dependencyContract)
                  IN  IF ~loaded.ok
                      THEN [ok |-> FALSE, factoryDeps |-> <<>>, visited |-> vis,
                            error |-> loaded.error]
                      ELSE LET transitive ==
                                   ExtractFactoryDepsRecursive(loaded.artifact, 1,
                                       vis \cup {dependencyContract}, <<>>)
                           IN  IF ~transitive.ok THEN transitive
                               ELSE ExtractFactoryDepsRecursive(artifact, i + 1,
                                        transitive.visited,
                                        Append(acc, loaded.artifact.bytecode)
                                            \o transitive.factoryDeps)

RunAlone(artifact) ==
    ExtractFactoryDepsRecursive(artifact, 1, {FullyQualifiedName(artifact)}, <<>>)

(***************************************************************************)
(* deployContract (helpers.ts 195-228) and getWallet (helpers.ts 16-37).   *)
(***************************************************************************)
\* ethers.BytesLike values: a hex string or a Uint8Array (written as text).
BytesLikes ==
    {[type |-> "string", text |-> "0xEE"],
     [type |-> "Uint8Array", text |-> "[238]"],
     [type |-> "string", text |-> "0xe"]}

\* ethers.hexlify: the lower-case hex string of the bytes; it throws on a string
\* that is not an even number of hex digits after 0x.
Hexlify(val) ==
    CASE val.type = "Uint8Array" /\ val.text = "[238]" -> [ok |-> TRUE, hex |-> "0xee"]
      [] val.type = "string" /\ val.text = "0xEE" -> [ok |-> TRUE, hex |-> "0xee"]
      [] OTHER -> [ok |-> FALSE, hex |-> ""]

AdditionalLists == UNION {[1..k -> BytesLikes] : k \in 0..MaxAdditional}

Undefined == [given |-> FALSE, deps |-> <<>>]

\* `additionalFactoryDeps ? additionalFactoryDeps.map((val) => ethers.hexlify(val)) : []`
AdditionalDeps(arg) ==
    IF arg.given THEN [i \in DOMAIN arg.deps |-> Hexlify(arg.deps[i]).hex] ELSE <<>>

AdditionalDepsThrow(arg) ==
    arg.given /\ \E i \in DOMAIN arg.deps : ~Hexlify(arg.deps[i]).ok

\* getWallet(hre): privateKeyOrIndex is undefined, so the first configured
\* wallet, or an error when there is none.
GetWallet(n) ==
    IF n = 0
    THEN [ok |-> FALSE, error |-> [kind |-> "AccountsNotConfigured", name |-> <<>>]]
    ELSE [ok |-> TRUE, error |-> NoError]

\* deployContract is called: `if (!wallet) wallet = await getWallet(hre)`.
DeployContract(p) ==
    /\ dpc[p] = "called"
    /\ dpc' = [dpc EXCEPT ![p] = IF walletArg[p] THEN "resolve" ELSE "wallet"]
    /\ UNCHANGED <<store, root, pc, visited, stack, result, error, loads, inflight,
                   returned, walletArg, accounts, additional, sent, thrown>>

\* getWallet settled; on success the factory is built and extractFactoryDeps
\* is about to be called.
GetWalletSettled(p) ==
    /\ dpc[p] = "wallet"
    /\ LET w == GetWallet(accounts[p])
       IN  IF w.ok
           THEN dpc' = [dpc EXCEPT ![p] = "resolve"] /\ UNCHANGED thrown
           ELSE /\ dpc' = [dpc EXCEPT ![p] = "failed"]
                /\ thrown' = [thrown EXCEPT ![p] = w.error]
    /\ UNCHANGED <<store, root, pc, visited, stack, result, error, loads, inflight,
                   returned, walletArg, accounts, additional, sent>>

\* `await extractFactoryDeps(hre, artifact)` rejected: deployContract rejects
\* with the same error.
ResolutionRejected(p) ==
    /\ dpc[p] = "resolve"
    /\ pc[p] = "failed"
    /\ dpc' = [dpc EXCEPT ![p] = "failed"]
    /\ thrown' = [thrown EXCEPT ![p] = error[p]]
    /\ UNCHANGED <<store, root, pc, visited, stack, result, error, loads, inflight,
                   returned, walletArg, accounts, additional, sent>>

\* Variant: the additional dependencies are put first.
SendDeployAdditionalFirst(p) ==
    /\ dpc[p] = "resolve"
    /\ pc[p] = "done"
    /\ LET baseDeps == result[p]
       IN  IF AdditionalDepsThrow(additional[p])
           THEN /\ dpc' = [dpc EXCEPT ![p] = "failed"]
                /\ thrown' = [thrown EXCEPT ![p] = [kind |-> "InvalidBytesLike",
                                                    name |-> <<>>]]
                /\ UNCHANGED sent
           ELSE /\ dpc' = [dpc EXCEPT ![p] = "deploying"]
                /\ sent' = [sent EXCEPT ![p] =
                       Append(@, AdditionalDeps(additional[p]) \o baseDeps)]
                /\ UNCHANGED thrown
    /\ UNCHANGED <<store, root, pc, visited, stack, result, error, loads, inflight,
                   returned, walletArg, accounts, additional>>

\* baseDeps arrived: hexlify the additional ones, concatenate, and send the
\* deploy transaction (factory.deploy); hexlify may throw first.
SendDeploy(p) ==
    /\ dpc[p] = "resolve"
    /\ pc[p] = "done"
    /\ LET baseDeps == result[p]
       IN  IF AdditionalDepsThrow(additional[p])
           THEN /\ dpc' = [dpc EXCEPT ![p] = "failed"]
                /\ thrown' = [thrown EXCEPT ![p] = [kind |-> "InvalidBytesLike",
                                                    name |-> <<>>]]
                /\ UNCHANGED sent
           ELSE /\ dpc' = [dpc EXCEPT ![p] = "deploying"]
                /\ sent' = [sent EXCEPT ![p] =
                       Append(@, baseDeps \o AdditionalDeps(additional[p]))]
                /\ UNCHANGED thrown
    /\ UNCHANGED <<store, root, pc, visited, stack, result, error, loads, inflight,
                   returned, walletArg, accounts, additional>>

\* factory.deploy settled: the contract, or the network's error.
DeploySettled(p) ==
    /\ dpc[p] = "deploying"
    /\ \E ok \in BOOLEAN :
          IF ok
          THEN dpc' = [dpc EXCEPT ![p] = "waiting"] /\ UNCHANGED thrown
          ELSE /\ dpc' = [dpc EXCEPT ![p] = "failed"]
               /\ thrown' = [thrown EXCEPT ![p] = [kind |-> "DeployFailed", name |-> <<>>]]
    /\ UNCHANGED <<store, root, pc, visited, stack, result, error, loads, inflight,
                   returned, walletArg, accounts, additional, sent>>

\* contract.waitForDeployment settled: deployContract returns the contract.
WaitSettled(p) ==
    /\ dpc[p] = "waiting"
    /\ \E ok \in BOOLEAN :
          IF ok
          THEN dpc' = [dpc EXCEPT ![p] = "returned"] /\ UNCHANGED thrown
          ELSE /\ dpc' = [dpc EXCEPT ![p] = "failed"]
               /\ thrown' = [thrown EXCEPT ![p] = [kind |-> "DeployFailed", name |-> <<>>]]
    /\ UNCHANGED <<store, root, pc, visited, stack, result, error, loads, inflight,
                   returned, walletArg, accounts, additional, sent>>

DeployNext ==
    \/ \E p \in Procs : DeployContract(p)
    \/ \E p \in Procs : GetWalletSettled(p)
    \/ \E p \in Procs : ResolutionRejected(p)
    \/ \E p \in Procs : SendDeploy(p)
    \/ \E p \in Procs : DeploySettled(p)
    \/ \E p \in Procs : WaitSettled(p)

\* The store the compile step left on disk: any artifacts with the tags
\* `formats` and at most `edges` factoryDeps entries in total. An artifact no root references is never read,
\* so none is placed there. The root was loaded and validated by the caller
\* (getContractFactory and deployContract are handed the result of loadArtifact).
InitCalls(procs, roots, edges, formats) ==
    /\ \E a \in Entries(A, formats, edges) :
       \E b \in Entries(B, formats, Budget(edges, Len(a.factoryDeps))) :
       \E c \in Entries(C, formats,
                         Budget(edges, Len(a.factoryDeps) + Len(b.factoryDeps))) :
       \E d \in Entries(D, formats,
                         Budget(edges, Len(a.factoryDeps) + Len(b.factoryDeps)
                                           + Len(c.factoryDeps))) :
          store = (A :> a) @@ (B :> b) @@ (C :> c) @@ (D :> d)
    /\ root \in [procs -> {store[n] : n \in Names}]
    /\ \A p \in procs : FullyQualifiedName(root[p]) \in roots[p] /\ Recognized(root[p])
    /\ \A n \in Names :
          store[n].exists =>
              n \in Referenced(store, {FullyQualifiedName(root[p]) : p \in procs})
    /\ pc = [p \in procs |-> "idle"]
    /\ visited = [p \in procs |-> {}]
    /\ stack = [p \in procs |-> <<>>]
    /\ result = [p \in procs |-> <<>>]
    /\ error = [p \in procs |-> NoError]
    /\ loads = [p \in procs |-> <<>>]
    /\ inflight = [p \in procs |-> 0]
    /\ returned = [p \in procs |-> {}]
    /\ sent = [p \in procs |-> <<>>]
    /\ thrown = [p \in procs |-> NoError]

\* extractFactoryDeps called directly.
Direct(procs) ==
    /\ dpc = [p \in procs |-> "none"]
    /\ walletArg = [p \in procs |-> TRUE]
    /\ accounts = [p \in procs |-> 0]
    /\ additional = [p \in procs |-> Undefined]

\* One resolution.
Init == InitCalls({1}, <<{A}>>, MaxEdges, Formats) /\ Direct({1})

Spec == Init /\ [][Next]_vars

\* One resolution in a project with one zkSync compiler. The event loop runs
\* every continuation that is ready, and every read of the store settles.
InitFair == InitCalls({1}, <<{A}>>, MaxEdges, OneCompiler) /\ Direct({1})

SpecFair == InitFair /\ [][Next]_vars /\ WF_vars(Next)

\* Two resolutions, over the same root or over two roots, in one event loop
\* (the first over A; which call is the first makes no difference).
InitConcurrent == InitCalls({1, 2}, <<{A}, {A, B}>>, ConcEdges, OneCompiler) /\ Direct({1, 2})

SpecConcurrent == InitConcurrent /\ [][Next]_vars

\* One deployContract call.
InitDeploy ==
    /\ InitCalls({1}, <<{A}>>, DeployEdges, OneCompiler)
    /\ dpc = [p \in {1} |-> "called"]
    /\ walletArg \in [{1} -> BOOLEAN]
    /\ accounts \in [{1} -> {n \in 0..1 : walletArg[1] => n = 1}]
    /\ additional \in [{1} -> {Undefined} \cup
                                {[given |-> TRUE, deps |-> d] : d \in AdditionalLists}]

NextDeploy == Next \/ DeployNext

SpecDeploy == InitDeploy /\ [][NextDeploy]_vars

(***************************************************************************)
(* Properties.                                                             *)
(***************************************************************************)
Done(p) == pc[p] = "done"

Failed(p) == pc[p] = "failed"

RootName(p) == FullyQualifiedName(root[p])

Range(seq) == {seq[i] : i \in DOMAIN seq}

Occurrences(seq, x) == Cardinality({i \in DOMAIN seq : seq[i] = x})

Last(seq) == seq[Len(seq)]

\* The dependency graph of the store: Deps(n) are the names artifact n declares.
Deps(n) == store[n].factoryDeps

\* Pre-order, depth-first, first-discovery order of the graph: `todo` are the
\* names still to look at, leftmost first; a name not seen yet is output and its
\* own dependencies are looked at before the rest.
RECURSIVE Preorder(_, _, _)
Preorder(todo, seen, out) ==
    IF todo = <<>> THEN out
    ELSE IF Head(todo) \in seen THEN Preorder(Tail(todo), seen, out)
    ELSE Preorder(Deps(Head(todo)) \o Tail(todo), seen \cup {Head(todo)},
                  Append(out, Head(todo)))

Discovery(p) == Preorder(root[p].factoryDeps, {RootName(p)}, <<>>)

Diamond ==
    /\ store[A].factoryDeps = <<B, C>>
    /\ store[B].factoryDeps = <<D>>
    /\ store[C].factoryDeps = <<D>>
    /\ store[D].factoryDeps = <<>>

\* C1: in every state of a resolution no name was passed to loadArtifact twice,
\* and the array a finished resolution returns holds each bytecode as many times
\* as there are distinct loaded names with that bytecode: every name contributes
\* one entry at most, however many dependency-hash keys point to it.
C1_EachIdentityOnce ==
    \A p \in Procs :
        /\ \A n \in Names : Occurrences(loads[p], n) <= 1
        /\ Done(p) =>
              \A n \in Names :
                  Occurrences(result[p], store[n].bytecode) =
                      Cardinality({m \in Range(loads[p]) :
                                     store[m].bytecode = store[n].bytecode})

\* A finished resolution of the diamond A->B, A->C, B->D, C->D: D was reached
\* under two different keys and loaded once.
C1_Witness ==
    /\ Diamond
    /\ Done(1)
    /\ Occurrences(loads[1], D) = 1
    /\ Len(result[1]) = 3

\* C2: when every load succeeded, the names loaded are the pre-order depth-first
\* first-discovery order of the graph from the root's factoryDeps, entries taken
\* in insertion order, and the array returned is their bytecodes in that order
\* (so it is a function of the graph alone).
C2_PreorderFirstDiscovery ==
    \A p \in Procs :
        Done(p) =>
            /\ loads[p] = Discovery(p)
            /\ result[p] = [i \in DOMAIN Discovery(p) |-> store[Discovery(p)[i]].bytecode]

\* The diamond returns [B, D, C].
C2_Witness ==
    /\ Diamond
    /\ Done(1)
    /\ result[1] = <<BytecodeOf(B), BytecodeOf(D), BytecodeOf(C)>>
    /\ loads[1] = <<B, D, C>>

Settled(p) == Done(p) \/ Failed(p)

\* n lies on a cycle of the dependency graph.
OnCycle(n) == n \in Referenced(store, Range(Deps(n)))

\* Every frame but the outermost belongs to a name already in `visited`.
MarkedBeforeRecursing(p) ==
    \A k \in 2..Len(stack[p]) : FullyQualifiedName(stack[p][k].artifact) \in visited[p]

\* C3: every resolution settles, also on a graph with cycles; a name is in
\* `visited` whenever extractFactoryDepsRecursive runs on its artifact; and when
\* the resolution succeeds, every referenced name on a cycle was loaded exactly
\* once, except the root, which was never loaded.
C3_CyclesTerminate ==
    /\ <>(\A p \in Procs : Settled(p))
    /\ [](\A p \in Procs :
            /\ MarkedBeforeRecursing(p)
            /\ Done(p) =>
                  \A n \in Referenced(store, {RootName(p)}) :
                      OnCycle(n) =>
                          /\ Occurrences(loads[p], n) = (IF n = RootName(p) THEN 0 ELSE 1)
                          /\ Len(result[p]) = Len(loads[p]))

\* A->B->A with B and C declaring each other: finished with [B, C].
C3_Witness ==
    /\ store[A].factoryDeps = <<B>>
    /\ store[B].factoryDeps = <<A, C>>
    /\ store[C].factoryDeps = <<B>>
    /\ Done(1)
    /\ loads[1] = <<B, C>>
    /\ result[1] = <<BytecodeOf(B), BytecodeOf(C)>>

\* The names referenced from `from` through the factoryDeps of artifacts that
\* loadArtifact accepts (those of a refused artifact are not counted).
RECURSIVE Traversable(_)
Traversable(from) ==
    LET more == from \cup UNION {Range(Deps(n)) : n \in {m \in from : Recognized(store[m])}}
    IN  IF more = from THEN from ELSE Traversable(more)

MissingReferenced(p) == {n \in Traversable({RootName(p)}) : ~store[n].exists}

UnrecognizedReferenced(p) ==
    {n \in Traversable({RootName(p)}) : store[n].exists /\ ~Recognized(store[n])}

\* C4 as claimed: a settled resolution whose graph references a missing artifact
\* failed with NotFound naming a missing artifact, and returned nothing.
C4_AsClaimed ==
    \A p \in Procs :
        (Settled(p) /\ MissingReferenced(p) # {}) =>
            /\ Failed(p)
            /\ result[p] = <<>>
            /\ error[p].kind = "NotFound"
            /\ error[p].name \in MissingReferenced(p)

\* C4 amended: a settled resolution whose graph references a missing artifact
\* failed and returned nothing; the error is that of the one failing load, the
\* last one issued: NotFound naming it when it is missing,
\* NotCompiledByExpectedToolchain naming it when it has an unrecognized format;
\* and it is NotFound whenever no referenced artifact has an unrecognized format.
C4_FirstFailureWins ==
    \A p \in Procs :
        (Settled(p) /\ MissingReferenced(p) # {}) =>
            /\ Failed(p)
            /\ result[p] = <<>>
            /\ loads[p] # <<>>
            /\ error[p].name = Last(loads[p])
            /\ \A i \in 1..(Len(loads[p]) - 1) : Recognized(store[loads[p][i]])
            /\ error[p].kind = (IF store[error[p].name].exists
                                THEN "NotCompiledByExpectedToolchain" ELSE "NotFound")
            /\ ~Recognized(store[error[p].name])
            /\ UnrecognizedReferenced(p) = {} => error[p].kind = "NotFound"

\* A missing artifact two levels down: A->B->C with C missing.
C4_Witness ==
    /\ store[A].factoryDeps = <<B>>
    /\ store[B].factoryDeps = <<C>>
    /\ ~store[C].exists
    /\ Failed(1)
    /\ error[1] = [kind |-> "NotFound", name |-> C]
    /\ result[1] = <<>>

\* C5: from the first step of a call on, the root's name is in `visited`; the
\* root's name is never passed to loadArtifact; the array returned has one entry
\* per loaded name; and a root all of whose factoryDeps entries (if any) name the
\* root itself returns the empty array.
C5_RootSeeded ==
    \A p \in Procs :
        /\ pc[p] # "idle" => RootName(p) \in visited[p]
        /\ RootName(p) \notin Range(loads[p])
        /\ Done(p) => Len(result[p]) = Len(loads[p])
        /\ (Settled(p) /\ Range(root[p].factoryDeps) \subseteq {RootName(p)}) =>
              Done(p) /\ result[p] = <<>> /\ loads[p] = <<>>

\* The root reached again through a cycle and through itself: A declares A and
\* B, B declares A.
C5_Witness ==
    /\ store[A].factoryDeps = <<A, B>>
    /\ store[B].factoryDeps = <<A>>
    /\ Done(1)
    /\ result[1] = <<BytecodeOf(B)>>

\* C6: every settled loadArtifact call of a resolution returned the artifact of
\* the store when its format is the zksolc or the zkvyper tag (the recursion
\* then runs on exactly that artifact), and otherwise threw: NotFound naming the
\* requested name when the store has none, NotCompiledByExpectedToolchain naming
\* it when the format is any other tag.
C6_LoadArtifact ==
    \A p \in Procs :
        /\ \A k \in 2..Len(stack[p]) :
              LET name == stack[p][k-1].artifact.factoryDeps[stack[p][k-1].i]
              IN  /\ stack[p][k].artifact = store[name]
                  /\ store[name].format \in {ZKSOLC_ARTIFACT_FORMAT_VERSION,
                                              ZKVYPER_ARTIFACT_FORMAT_VERSION}
        /\ \A i \in DOMAIN loads[p] :
              (i < Len(loads[p]) \/ pc[p] # "load") =>
                  LET name == loads[p][i]
                      threw == i = Len(loads[p]) /\ pc[p] \in {"throw", "failed"}
                  IN  IF store[name].exists
                         /\ store[name].format \in {ZKSOLC_ARTIFACT_FORMAT_VERSION,
                                                     ZKVYPER_ARTIFACT_FORMAT_VERSION}
                      THEN ~threw /\ name \in visited[p]
                      ELSE /\ threw
                           /\ name \notin visited[p]
                           /\ error[p] =
                                  [kind |-> IF store[name].exists
                                            THEN "NotCompiledByExpectedToolchain"
                                            ELSE "NotFound",
                                   name |-> name]

\* A zkvyper artifact was loaded, then a solc artifact was refused.
C6_Witness ==
    /\ Len(loads[1]) = 2
    /\ store[loads[1][1]].format = ZKVYPER_ARTIFACT_FORMAT_VERSION
    /\ store[loads[1][2]].format = SOLC_ARTIFACT_FORMAT_VERSION
    /\ error[1] = [kind |-> "NotCompiledByExpectedToolchain", name |-> loads[1][2]]
    /\ Failed(1)

\* C7: with two resolutions interleaved at will, each one settles with what
\* the same call returns or throws when it runs alone, and the names in its
\* `visited` set are its own root's and the ones it loaded itself.
C7_NoInterference ==
    \A p \in Procs :
        /\ pc[p] # "idle" => visited[p] \subseteq {RootName(p)} \cup Range(loads[p])
        /\ Done(p) => RunAlone(root[p]).ok /\ result[p] = RunAlone(root[p]).factoryDeps
        /\ Failed(p) => ~RunAlone(root[p]).ok /\ error[p] = RunAlone(root[p]).error
                          /\ result[p] = <<>>

\* Call 1, over root A, has returned two bytecodes while call 2, over root B, is
\* waiting for a load of a name call 1 has loaded too.
C7_Witness ==
    /\ Procs = {1, 2}
    /\ RootName(1) = A /\ RootName(2) = B
    /\ Done(1) /\ Len(result[1]) = 2
    /\ pc[2] = "load"
    /\ Last(loads[2]) \in Range(loads[1])

\* C8: once a load of a resolution has failed, the resolution is propagating
\* that error or has been rejected with it, and every later step of it leaves the
\* error and the list of loads as they are and returns no array; the error is the
\* one loadArtifact gives for the last name loaded, which was loaded once.
C8_AbortOnFirstFailure ==
    [][\A p \in Procs :
          /\ error[p] # NoError =>
                /\ loads'[p] = loads[p]
                /\ error'[p] = error[p]
                /\ pc'[p] \in {"throw", "failed"}
                /\ result'[p] = <<>>
                /\ Len(stack'[p]) <= Len(stack[p])
          /\ error'[p] # NoError =>
                /\ pc'[p] \in {"throw", "failed"}
                /\ loads'[p] # <<>>
                /\ error'[p] = LoadArtifact(Last(loads'[p])).error
                /\ Occurrences(loads'[p], Last(loads'[p])) = 1
          /\ pc'[p] \in {"throw", "failed"} => error'[p] # NoError
      ]_vars

\* The error of a load issued one level down has reached the caller while the
\* outermost frame still had an entry for a name not visited.
C8_Witness ==
    /\ Failed(1)
    /\ Len(loads[1]) = 2
    /\ root[1].factoryDeps = <<loads[1][1], C>>
    /\ C \notin Range(loads[1])
    /\ store[loads[1][1]].factoryDeps = <<loads[1][2]>>
    /\ error[1].name = loads[1][2]

\* Names loaded whose recursive call has neither returned nor is on the stack.
Dangling(p) ==
    {n \in Range(loads[p]) :
        /\ n \notin returned[p]
        /\ \A k \in DOMAIN stack[p] : FullyQualifiedName(stack[p][k].artifact) # n}

\* C9: a resolution has at most one load pending, exactly when it is suspended
\* in loadArtifact; every name loaded before has its whole recursive call
\* returned or is an ancestor of the current frame (so the only unfinished name
\* off the stack is the one being loaded); and whatever the order in which the
\* loads of two resolutions settle, the array returned is the one of the call
\* run alone.
C9_OneLoadAtATime ==
    \A p \in Procs :
        /\ inflight[p] = (IF pc[p] = "load" THEN 1 ELSE 0)
        /\ pc[p] = "loop" => Dangling(p) = {}
        /\ pc[p] = "load" => Dangling(p) = {Last(loads[p])}
        /\ Done(p) => result[p] = RunAlone(root[p]).factoryDeps /\ Dangling(p) = {}

\* The second entry of the root is being loaded after the first entry's subtree
\* was loaded and returned, while the other resolution waits for a load as well.
C9_Witness ==
    /\ Procs = {1, 2}
    /\ pc[1] = "load" /\ pc[2] = "load"
    /\ Len(stack[1]) = 1 /\ stack[1][1].i = 2
    /\ Len(loads[1]) = 3
    /\ returned[1] = {loads[1][1], loads[1][2]}

====
